---- MODULE Spec2Model ----
(***************************************************************************)
(* Rendered fetch of scram_hpc_rs: fetch_browser (lib.rs) drives           *)
(* MirageBrowser::new and MirageBrowser::fetch_page (browser.rs).          *)
(*                                                                         *)
(* Each fetch f runs the foreground flow; each session s has the renderer  *)
(* process handle (field `browser`) and the spawned event-drain task       *)
(* (field `handle`).  Every `.await` of the source is a suspension point:  *)
(* pc[f] names the operation the flow is currently suspended on, and the   *)
(* renderer's answer (Ok / Err) is a separate step.  The MirageBrowser     *)
(* value is a local of fetch_browser's async block, so it is dropped on    *)
(* every exit of that block; dropping it releases the process handle and   *)
(* detaches the drain task (the JoinHandle is dropped, not aborted).       *)
(***************************************************************************)
EXTENDS Integers, Sequences, FiniteSets, TLC

\* ---- bounds -------------------------------------------------------------
MaxEvents == 1
JitterSamples == 2
MaxRespHeaders == 2
MaxFeatures == 3
MaxCalls == 3

\* ---- program constants --------------------------------------------------
WarmUpLow == 500
WarmUpHigh == 1500
SettleLow == 1000
SettleHigh == 3000
StatusOk == 200

Fetches == 1..2
Sessions == 1..2
Urls == {"a", "b"}
Blank == "about:blank"
\* Statuses a server may answer with.
HttpStatuses == {200, 404, 500}

VARIABLES fetch, session, direct, engine

vars == <<fetch, session, direct, engine>>

\* Page operations awaited by fetch_page, each followed by `?`.
PageOps == {"new_page", "goto", "wait_for_navigation", "content", "screenshot", "close"}
Terminal == {"Closed", "Failed"}

GenRangeInclusive(lo, hi) ==
    {lo + ((k * (hi - lo)) \div JitterSamples) : k \in 0..JitterSamples}
\* rng.gen_range(lo..hi): a value of the half-open range, sampled here at
\* JitterSamples evenly spaced points plus the largest value hi-1.
GenRange(lo, hi) ==
    {lo + ((k * (hi - lo)) \div JitterSamples) : k \in 0..(JitterSamples - 1)} \cup {hi - 1}

\* What the renderer hands back for the page it has loaded.
ContentOf(u) == <<"html", u>>
ScreenshotOf(u) == <<"png", u>>

SharedSession(f) == 1
\* fetch_browser creates its own MirageBrowser in a local of its async block.
SessionOf(f) == f

NoSession ==
    [browser |-> "none", handle |-> "none", created |-> 0, closed |-> 0,
     pageOpen |-> FALSE, pagesOpened |-> 0, pageCloseCalls |-> 0,
     loadedUrl |-> Blank, netStatus |-> 0, drained |-> 0]

SpawnThenRelease(sr) ==
    [sr EXCEPT !.browser = "released", !.handle = "running", !.created = @ + 1]
\* MirageBrowser::new after a successful launch: the drain task is spawned
\* and Self { browser, handle } is built.
Spawn(sr) ==
    [sr EXCEPT !.browser = "alive", !.handle = "running", !.created = @ + 1]

\* Drop of the MirageBrowser value: the Browser (process handle) is released
\* and the JoinHandle is dropped, which detaches the task without stopping it.
DropBrowser(sr) ==
    [sr EXCEPT !.browser = "released", !.closed = @ + 1]


\* ---- fetch_url (lib.rs) ----------------------------------------------------
\* headers: Option<HashMap<String, String>>; None, or a map name -> value.
EmptyMap == [x \in {} |-> ""]
NoHeaders == [some |-> FALSE, map |-> EmptyMap]
ReqNames == {"x-a", "bad name"}
ReqValues == {"1", "bad\nvalue"}
HeaderMaps == UNION {[N -> ReqValues] : N \in SUBSET ReqNames}
HeaderArgs == {NoHeaders} \cup {[some |-> TRUE, map |-> m] : m \in HeaderMaps}

\* What the transport accepts as a header name / value.
ValidName(n) == n # "bad name"
ValidValue(v) == v # "bad\nvalue"

\* Response headers as the server sends them, in order; Opaque stands for a
\* value holding bytes outside visible ASCII, for which to_str() fails.
Opaque == "<0xFF>"
RespNames == {"set-cookie", "x-id"}
RespValues == {"a", "b", Opaque}
RespHeaderSeqs ==
    UNION {[1..n -> RespNames \X RespValues] : n \in 0..MaxRespHeaders}
Bodies == {"not found", "ok"}
\* content_length(): Option<u64>, <<>> for None.
Lengths == {<<>>, <<9>>}
Responses ==
    [status : HttpStatuses, headers : RespHeaderSeqs, length : Lengths, body : Bodies]

Insert(m, k, v) == [x \in (DOMAIN m) \cup {k} |-> IF x = k THEN v ELSE m[x]]

HeaderSkipInvalid(rb, k, v) ==
    IF ValidName(k) /\ ValidValue(v)
        THEN [rb EXCEPT !.headers = Insert(@, k, v)]
        ELSE rb
\* request_builder.header(k, v): the pair is attached; a name or value the
\* transport rejects turns the builder into its error, which send() returns.
Header(rb, k, v) ==
    IF ~rb.ok THEN rb
    ELSE IF ValidName(k) /\ ValidValue(v)
        THEN [rb EXCEPT !.headers = Insert(@, k, v)]
        ELSE [rb EXCEPT !.ok = FALSE]

RECURSIVE AttachAll(_, _)
\* for (k, v) in h { request_builder = request_builder.header(k, v); }
AttachAll(rb, h) ==
    IF DOMAIN h = {} THEN rb
    ELSE LET k == CHOOSE x \in DOMAIN h : TRUE
         IN AttachAll(Header(rb, k, h[k]), [x \in (DOMAIN h) \ {k} |-> h[x]])

\* client.get(&url) followed by the header loop.
RequestBuilder(h) ==
    IF ~h.some THEN [ok |-> TRUE, headers |-> EmptyMap]
    ELSE AttachAll([ok |-> TRUE, headers |-> EmptyMap], h.map)

ToStrOk(v) == v # Opaque

RECURSIVE HeadersMap(_, _)
\* for (key, value) in response.headers() {
\*     if let Ok(v) = value.to_str() { headers_map.insert(key, v); } }
HeadersMap(hs, m) ==
    IF hs = <<>> THEN m
    ELSE HeadersMap(Tail(hs),
                    IF ToStrOk(Head(hs)[2])
                        THEN Insert(m, Head(hs)[1], Head(hs)[2])
                        ELSE m)

\* A fetch_url call not yet started, with its argument and the answer the
\* server will give if a request reaches it.
DirectIdle(h, srv) ==
    [pc |-> "idle", headers |-> h, server |-> srv,
     request_builder |-> [ok |-> TRUE, headers |-> EmptyMap], sent |-> 0,
     status |-> 0, wire_length |-> <<>>, headers_map |-> EmptyMap,
     err |-> "none", result |-> <<>>]

PlainResponse ==
    [status |-> 200, headers |-> <<>>, length |-> <<>>, body |-> "ok"]

\* ---- InferenceEngine (inference.rs) ----------------------------------------
ModelPaths == {"m.onnx", "n.onnx"}
Features == UNION {[1..n -> {"1.0", "2.0"}] : n \in 0..MaxFeatures}
NoEngine ==
    [session |-> "none", calls |-> 0, dom_features |-> <<>>, out |-> <<>>,
     prev_features |-> <<>>, prev_out |-> <<>>, err |-> "none"]

ExtractEcho(dom_features) == dom_features
\* extract: Ok(vec![0.99, 0.1, 0.5]) whatever _dom_features is.
ExtractResult(dom_features) == <<"0.99", "0.1", "0.5">>

Init ==
    /\ fetch \in [Fetches -> {[pc |-> "idle", url |-> u, err |-> "none",
                               log |-> <<>>, jitter |-> 0, content |-> <<>>,
                               screenshot |-> <<>>, status |-> 0,
                               result |-> <<>>] : u \in Urls}]
    /\ session = [s \in Sessions |-> NoSession]
    /\ direct = DirectIdle(NoHeaders, PlainResponse)
    /\ engine = NoEngine

\* fetch_browser is invoked: Browser::launch is awaited.
FetchBrowser(f) ==
    /\ fetch[f].pc = "idle"
    /\ fetch' = [fetch EXCEPT ![f].pc = "launch", ![f].log = Append(@, "create")]
    /\ UNCHANGED session
    /\ UNCHANGED <<direct, engine>>

LaunchErrSpawned(f) ==
    /\ fetch[f].pc = "launch"
    /\ fetch' = [fetch EXCEPT ![f].pc = "Failed", ![f].err = "create"]
    /\ session' = [session EXCEPT ![SessionOf(f)].handle = "running"]
    /\ UNCHANGED <<direct, engine>>
\* Browser::launch fails: `?` leaves new() before the spawn, and
\* fetch_browser returns the error.
LaunchErr(f) ==
    /\ fetch[f].pc = "launch"
    /\ fetch' = [fetch EXCEPT ![f].pc = "Failed", ![f].err = "create"]
    /\ UNCHANGED session
    /\ UNCHANGED <<direct, engine>>

\* Browser::launch succeeds: the drain task is spawned, fetch_page starts
\* and awaits new_page("about:blank").
LaunchOk(f) ==
    /\ fetch[f].pc = "launch"
    /\ fetch' = [fetch EXCEPT ![f].pc = "new_page", ![f].log = Append(@, "new_page")]
    /\ session' = [session EXCEPT ![SessionOf(f)] = Spawn(@)]
    /\ UNCHANGED <<direct, engine>>

NewPageOkNoWarmUp(f) ==
    /\ fetch[f].pc = "new_page"
    /\ fetch' = [fetch EXCEPT ![f].pc = "goto", ![f].log = Append(@, "goto")]
    /\ session' = [session EXCEPT ![SessionOf(f)].pageOpen = TRUE,
                                  ![SessionOf(f)].pagesOpened = @ + 1,
                                  ![SessionOf(f)].loadedUrl = Blank]
    /\ UNCHANGED <<direct, engine>>
\* new_page answered: the warm-up jitter is sampled and the flow sleeps.
NewPageOk(f) ==
    /\ fetch[f].pc = "new_page"
    /\ \E j \in GenRange(WarmUpLow, WarmUpHigh) :
         fetch' = [fetch EXCEPT ![f].pc = "warmup", ![f].jitter = j,
                                ![f].log = Append(@, "warmup")]
    /\ session' = [session EXCEPT ![SessionOf(f)].pageOpen = TRUE,
                                  ![SessionOf(f)].pagesOpened = @ + 1,
                                  ![SessionOf(f)].loadedUrl = Blank]
    /\ UNCHANGED <<direct, engine>>

\* The warm-up sleep elapses; page.goto(url) is awaited.
WarmUpElapsed(f) ==
    /\ fetch[f].pc = "warmup"
    /\ fetch' = [fetch EXCEPT ![f].pc = "goto", ![f].jitter = 0,
                              ![f].log = Append(@, "goto")]
    /\ UNCHANGED session
    /\ UNCHANGED <<direct, engine>>

GotoOkNewTab(f) ==
    /\ fetch[f].pc = "goto"
    /\ fetch' = [fetch EXCEPT ![f].pc = "wait_for_navigation",
                              ![f].log = Append(@, "wait_for_navigation")]
    /\ \E st \in HttpStatuses :
         session' = [session EXCEPT ![SessionOf(f)].loadedUrl = fetch[f].url,
                                    ![SessionOf(f)].netStatus = st,
                                    ![SessionOf(f)].pagesOpened = @ + 1]
    /\ UNCHANGED <<direct, engine>>
\* goto answered: the page of this session now shows the url, which the
\* renderer received with some HTTP status of its own;
\* wait_for_navigation is awaited.
GotoOk(f) ==
    /\ fetch[f].pc = "goto"
    /\ fetch' = [fetch EXCEPT ![f].pc = "wait_for_navigation",
                              ![f].log = Append(@, "wait_for_navigation")]
    /\ \E st \in HttpStatuses :
         session' = [session EXCEPT ![SessionOf(f)].loadedUrl = fetch[f].url,
                                    ![SessionOf(f)].netStatus = st]
    /\ UNCHANGED <<direct, engine>>

\* The renderer signals navigation completion: the settle jitter is sampled
\* and the flow sleeps.
WaitOk(f) ==
    /\ fetch[f].pc = "wait_for_navigation"
    /\ \E j \in GenRange(SettleLow, SettleHigh) :
         fetch' = [fetch EXCEPT ![f].pc = "settle", ![f].jitter = j,
                                ![f].log = Append(@, "settle")]
    /\ UNCHANGED session
    /\ UNCHANGED <<direct, engine>>

\* The settle sleep elapses; page.content() is awaited.
SettleElapsed(f) ==
    /\ fetch[f].pc = "settle"
    /\ fetch' = [fetch EXCEPT ![f].pc = "content", ![f].jitter = 0,
                              ![f].log = Append(@, "content")]
    /\ UNCHANGED session
    /\ UNCHANGED <<direct, engine>>

\* content answered; page.screenshot(params) is awaited.
ContentOk(f) ==
    /\ fetch[f].pc = "content"
    /\ fetch' = [fetch EXCEPT ![f].pc = "screenshot",
                              ![f].content = ContentOf(session[SessionOf(f)].loadedUrl),
                              ![f].log = Append(@, "screenshot")]
    /\ UNCHANGED session
    /\ UNCHANGED <<direct, engine>>

ScreenshotOkNetStatus(f) ==
    /\ fetch[f].pc = "screenshot"
    /\ fetch' = [fetch EXCEPT ![f].pc = "close",
                              ![f].screenshot = ScreenshotOf(session[SessionOf(f)].loadedUrl),
                              ![f].status = session[SessionOf(f)].netStatus,
                              ![f].log = Append(@, "close")]
    /\ session' = [session EXCEPT ![SessionOf(f)].pageCloseCalls = @ + 1]
    /\ UNCHANGED <<direct, engine>>
\* screenshot answered; status is set to 200 and page.close() is awaited.
ScreenshotOk(f) ==
    /\ fetch[f].pc = "screenshot"
    /\ fetch' = [fetch EXCEPT ![f].pc = "close",
                              ![f].screenshot = ScreenshotOf(session[SessionOf(f)].loadedUrl),
                              ![f].status = StatusOk,
                              ![f].log = Append(@, "close")]
    /\ session' = [session EXCEPT ![SessionOf(f)].pageCloseCalls = @ + 1]
    /\ UNCHANGED <<direct, engine>>

\* close answered: fetch_page returns Ok((content, status, screenshot)),
\* fetch_browser builds its result, the MirageBrowser is dropped at the end
\* of the block and the result is handed to the caller.
CloseOk(f) ==
    /\ fetch[f].pc = "close"
    /\ fetch' = [fetch EXCEPT ![f].pc = "Closed",
                              ![f].result = <<fetch[f].content, fetch[f].status,
                                              fetch[f].screenshot>>,
                              ![f].log = @ \o <<"close_session", "return">>]
    /\ session' = [session EXCEPT ![SessionOf(f)] =
                       DropBrowser([@ EXCEPT !.pageOpen = FALSE])]
    /\ UNCHANGED <<direct, engine>>

OpErrCloseIgnored(f) ==
    /\ fetch[f].pc \in PageOps
    /\ fetch' = IF fetch[f].pc = "close"
                    THEN [fetch EXCEPT ![f].pc = "Closed", ![f].err = "close",
                                       ![f].result = <<fetch[f].content, fetch[f].status,
                                                       fetch[f].screenshot>>,
                                       ![f].log = @ \o <<"close_session", "return">>]
                    ELSE [fetch EXCEPT ![f].pc = "Failed", ![f].err = fetch[f].pc,
                                       ![f].log = Append(@, "close_session")]
    /\ session' = [session EXCEPT ![SessionOf(f)] = DropBrowser(@)]
    /\ UNCHANGED <<direct, engine>>
OpErrLeak(f) ==
    /\ fetch[f].pc \in PageOps
    /\ fetch' = [fetch EXCEPT ![f].pc = "Failed", ![f].err = fetch[f].pc]
    /\ UNCHANGED session
    /\ UNCHANGED <<direct, engine>>
\* Any awaited page operation answers Err: `?` returns from fetch_page at
\* once (nothing after the failing line runs), fetch_browser maps the error
\* and returns it; the MirageBrowser is dropped at the end of the block.
OpErr(f) ==
    /\ fetch[f].pc \in PageOps
    /\ fetch' = [fetch EXCEPT ![f].pc = "Failed", ![f].err = fetch[f].pc,
                              ![f].log = Append(@, "close_session")]
    /\ session' = [session EXCEPT ![SessionOf(f)] = DropBrowser(@)]
    /\ UNCHANGED <<direct, engine>>

\* ---- the drain task spawned by MirageBrowser::new -------------------------
\* handler.next() yields Some(Ok(_)): the loop goes round.
DrainEvent(s) ==
    /\ session[s].handle = "running"
    /\ session[s].browser = "alive"
    /\ session[s].drained < MaxEvents
    /\ session' = [session EXCEPT ![s].drained = @ + 1]
    /\ UNCHANGED fetch
    /\ UNCHANGED <<direct, engine>>

\* handler.next() yields Some(Err(_)): `break`, the task finishes.
DrainErr(s) ==
    /\ session[s].handle = "running"
    /\ session[s].browser = "alive"
    /\ session' = [session EXCEPT ![s].handle = "broke"]
    /\ UNCHANGED fetch
    /\ UNCHANGED <<direct, engine>>

DrainEndContinue(s) ==
    /\ session[s].handle = "running"
    /\ session[s].browser = "released"
    /\ UNCHANGED vars
\* The renderer process has been released, its event stream is over:
\* handler.next() yields None (or the connection error) and the loop exits.
DrainEnd(s) ==
    /\ session[s].handle = "running"
    /\ session[s].browser = "released"
    /\ session' = [session EXCEPT ![s].handle = "ended"]
    /\ UNCHANGED fetch
    /\ UNCHANGED <<direct, engine>>


\* ---- fetch_url -------------------------------------------------------------
\* Client::builder().build() fails: `?` returns the error.
ClientBuildErr ==
    /\ direct.pc = "idle"
    /\ direct' = [direct EXCEPT !.pc = "Failed", !.err = "client"]
    /\ UNCHANGED <<fetch, session, engine>>

\* The client is built, the headers are attached and send() is awaited: a GET
\* goes out only if the builder holds a request and not an error.
FetchUrl ==
    /\ direct.pc = "idle"
    /\ LET rb == RequestBuilder(direct.headers) IN
         direct' = [direct EXCEPT !.pc = "send", !.request_builder = rb,
                                  !.sent = IF rb.ok THEN @ + 1 ELSE @]
    /\ UNCHANGED <<fetch, session, engine>>

SendErrRetry ==
    /\ direct.pc = "send"
    /\ direct.sent < 3
    /\ direct' = [direct EXCEPT !.sent = @ + 1]
    /\ UNCHANGED <<fetch, session, engine>>
\* send() resolves to Err: the builder's header error, or a transport
\* failure of the request that was sent; `?` returns it.
SendErr ==
    /\ direct.pc = "send"
    /\ direct' = [direct EXCEPT !.pc = "Failed",
                                !.err = IF direct.request_builder.ok
                                            THEN "transport" ELSE "header"]
    /\ UNCHANGED <<fetch, session, engine>>

SendOkForStatus ==
    /\ direct.pc = "send"
    /\ direct.request_builder.ok
    /\ direct' = IF direct.server.status >= 400
                     THEN [direct EXCEPT !.pc = "Failed", !.err = "status"]
                     ELSE [direct EXCEPT !.pc = "text",
                                         !.status = direct.server.status,
                                         !.wire_length = direct.server.length,
                                         !.headers_map =
                                             HeadersMap(direct.server.headers, EmptyMap)]
    /\ UNCHANGED <<fetch, session, engine>>
\* send() resolves to the response, whatever its status: status, content
\* length and headers are taken from it and text() is awaited.
SendOk ==
    /\ direct.pc = "send"
    /\ direct.request_builder.ok
    /\ direct' = [direct EXCEPT !.pc = "text",
                                !.status = direct.server.status,
                                !.wire_length = direct.server.length,
                                !.headers_map =
                                    HeadersMap(direct.server.headers, EmptyMap)]
    /\ UNCHANGED <<fetch, session, engine>>

\* text() resolves to Err (the body could not be read): `?` returns it.
TextErr ==
    /\ direct.pc = "text"
    /\ direct' = [direct EXCEPT !.pc = "Failed", !.err = "body"]
    /\ UNCHANGED <<fetch, session, engine>>

\* text() resolves to the body: Ok((text, status, wire_length, headers_map)).
TextOk ==
    /\ direct.pc = "text"
    /\ direct' = [direct EXCEPT !.pc = "Done",
                                !.result = <<direct.server.body, direct.status,
                                             direct.wire_length, direct.headers_map>>]
    /\ UNCHANGED <<fetch, session, engine>>

DirectNext ==
    \/ ClientBuildErr
    \/ FetchUrl
    \/ SendErr
    \/ SendOk
    \/ TextErr
    \/ TextOk

\* ---- InferenceEngine -------------------------------------------------------
\* InferenceEngine::new fails (model file missing or corrupt).
EngineNewErr ==
    /\ engine.session = "none"
    /\ engine.err = "none"
    /\ engine' = [engine EXCEPT !.err = "load"]
    /\ UNCHANGED <<fetch, session, direct>>

\* InferenceEngine::new commits the session from the model file.
EngineNew(p) ==
    /\ engine.session = "none"
    /\ engine.err = "none"
    /\ engine' = [engine EXCEPT !.session = p]
    /\ UNCHANGED <<fetch, session, direct>>

\* engine.extract(dom_features) on a loaded engine.
Extract(x) ==
    /\ engine.session # "none"
    /\ engine.calls < MaxCalls
    /\ engine' = [engine EXCEPT !.calls = @ + 1,
                                !.prev_features = engine.dom_features,
                                !.prev_out = engine.out,
                                !.dom_features = x,
                                !.out = ExtractResult(x)]
    /\ UNCHANGED <<fetch, session, direct>>

InferNext ==
    \/ EngineNewErr
    \/ \E p \in ModelPaths : EngineNew(p)
    \/ \E x \in Features : Extract(x)

Next ==
    \/ \E f \in Fetches : FetchBrowser(f)
    \/ \E f \in Fetches : LaunchErr(f)
    \/ \E f \in Fetches : LaunchOk(f)
    \/ \E f \in Fetches : NewPageOk(f)
    \/ \E f \in Fetches : WarmUpElapsed(f)
    \/ \E f \in Fetches : GotoOk(f)
    \/ \E f \in Fetches : WaitOk(f)
    \/ \E f \in Fetches : SettleElapsed(f)
    \/ \E f \in Fetches : ContentOk(f)
    \/ \E f \in Fetches : ScreenshotOk(f)
    \/ \E f \in Fetches : CloseOk(f)
    \/ \E f \in Fetches : OpErr(f)
    \/ \E s \in Sessions : DrainEvent(s)
    \/ \E s \in Sessions : DrainErr(s)
    \/ \E s \in Sessions : DrainEnd(s)

Spec == Init /\ [][Next]_vars

\* The scheduler runs every ready task: the invocation starts, timers
\* elapse, and the drain task observes the end of a released renderer's
\* stream.  Answers of a live renderer carry no fairness: nothing in the
\* source bounds how long they take.
FairSpec ==
    /\ Spec
    /\ \A f \in Fetches : WF_vars(FetchBrowser(f))
    /\ \A f \in Fetches : WF_vars(WarmUpElapsed(f))
    /\ \A f \in Fetches : WF_vars(SettleElapsed(f))
    /\ \A s \in Sessions : WF_vars(DrainEnd(s))


\* fetch_url alone, for every argument and every answer of the server; the
\* rendered fetches are not invoked.
DirectInit ==
    /\ fetch \in [Fetches -> {[pc |-> "idle", url |-> "a", err |-> "none",
                               log |-> <<>>, jitter |-> 0, content |-> <<>>,
                               screenshot |-> <<>>, status |-> 0,
                               result |-> <<>>]}]
    /\ session = [s \in Sessions |-> NoSession]
    /\ direct \in {DirectIdle(h, srv) : h \in HeaderArgs,
                                        srv \in Responses}
    /\ engine = NoEngine

DirectSpec == DirectInit /\ [][DirectNext]_vars

\* The inference engine alone.
InferInit ==
    /\ fetch \in [Fetches -> {[pc |-> "idle", url |-> "a", err |-> "none",
                               log |-> <<>>, jitter |-> 0, content |-> <<>>,
                               screenshot |-> <<>>, status |-> 0,
                               result |-> <<>>]}]
    /\ session = [s \in Sessions |-> NoSession]
    /\ direct = DirectIdle(NoHeaders, PlainResponse)
    /\ engine = NoEngine

InferSpec == InferInit /\ [][InferNext]_vars

\* One rendered fetch and one direct fetch side by side; the second rendered
\* fetch has already failed at launch.
CoreInit ==
    /\ \E u \in Urls :
         fetch = [f \in Fetches |->
                    IF f = 1
                    THEN [pc |-> "idle", url |-> u, err |-> "none",
                          log |-> <<>>, jitter |-> 0, content |-> <<>>,
                          screenshot |-> <<>>, status |-> 0, result |-> <<>>]
                    ELSE [pc |-> "Failed", url |-> u, err |-> "create",
                          log |-> <<"create">>, jitter |-> 0, content |-> <<>>,
                          screenshot |-> <<>>, status |-> 0, result |-> <<>>]]
    /\ session = [s \in Sessions |-> NoSession]
    /\ direct \in {DirectIdle(h, PlainResponse) : h \in HeaderArgs}
    /\ engine = NoEngine

CoreNext == Next \/ DirectNext

CoreSpec == CoreInit /\ [][CoreNext]_vars

TypeOK ==
    /\ \A f \in Fetches :
         /\ fetch[f].pc \in {"idle", "launch", "warmup", "settle"} \cup PageOps \cup Terminal
         /\ fetch[f].url \in Urls
    /\ \A s \in Sessions :
         /\ session[s].browser \in {"none", "alive", "released"}
         /\ session[s].handle \in {"none", "running", "broke", "ended"}

\* ---- properties -----------------------------------------------------------
SessionOfFetch(f) == session[SessionOf(f)]

\* Steps of one rendered fetch in the order the claim C4 gives them.
Order ==
    <<"create", "new_page", "warmup", "goto", "wait_for_navigation", "settle",
      "content", "screenshot", "close", "close_session", "return">>

\* Steps that come after the page was opened and before the page close.
AfterOpen == {"goto", "wait_for_navigation", "content", "screenshot"}

\* Everything a fetch owns: its own record and its session.
View(f) == <<fetch[f], session[SessionOf(f)]>>

\* C1: on every exit path of the rendered fetch the number of session closes
\* equals the number of successful session creations, and a session is never
\* closed more often than it was created.
C1_SessionsClosed ==
    \A f \in Fetches :
        /\ SessionOfFetch(f).closed <= SessionOfFetch(f).created
        /\ fetch[f].pc \in Terminal =>
               SessionOfFetch(f).closed = SessionOfFetch(f).created

\* A fetch whose navigation failed has returned, with its one session closed.
C1_Witness ==
    \E f \in Fetches :
        /\ fetch[f].pc = "Failed"
        /\ fetch[f].err = "goto"
        /\ SessionOfFetch(f).created = 1
        /\ SessionOfFetch(f).closed = 1

\* C2: when a step after the page open fails, a page close and a session
\* close are attempted before the error is returned, and the error is never
\* returned with the page still open.
C2_CleanupOnFailure ==
    \A f \in Fetches :
        (fetch[f].pc = "Failed" /\ fetch[f].err \in AfterOpen) =>
            /\ SessionOfFetch(f).pageCloseCalls >= 1
            /\ ~SessionOfFetch(f).pageOpen
            /\ SessionOfFetch(f).closed = 1

C4_StepOrder ==
    \A f \in Fetches :
        LET l == fetch[f].log IN
        /\ \A i \in 1..Len(l) :
               \/ l[i] = Order[i]
               \/ /\ l[i] = "close_session"
                  /\ i = Len(l)
                  /\ i > 2
                  /\ fetch[f].pc = "Failed"
                  /\ l[i - 1] = fetch[f].err
        /\ fetch[f].err # "none" =>
               /\ fetch[f].pc = "Failed"
               /\ \E i \in 1..Len(l) : l[i] = fetch[f].err /\ i >= Len(l) - 1
        /\ fetch[f].pc \in {"content", "screenshot", "close"} => fetch[f].jitter = 0
        /\ fetch[f].pc = "Closed" <=> fetch[f].result # <<>>
        /\ fetch[f].pc = "Closed" =>
               /\ l = Order
               /\ ~SessionOfFetch(f).pageOpen
               /\ SessionOfFetch(f).browser = "released"

\* A fetch has gone through all eleven steps and returned its result.
C4_Witness ==
    \E f \in Fetches :
        /\ fetch[f].pc = "Closed"
        /\ fetch[f].log = Order
        /\ fetch[f].result # <<>>

\* C5: whenever a page operation is in flight the drain task of its session
\* is running.
C5_DrainRunsDuringOps ==
    \A f \in Fetches :
        fetch[f].pc \in PageOps => SessionOfFetch(f).handle = "running"

C7_WaitForLoadEnds ==
    \A f \in Fetches :
        (fetch[f].pc = "wait_for_navigation") ~> (fetch[f].pc # "wait_for_navigation")

\* C8: a fetch whose session creation failed has ended with that error, with
\* no drain task, no page, no delay, no navigation and nothing to close.
C8_LaunchFailure ==
    \A f \in Fetches :
        (fetch[f].pc = "Failed" /\ fetch[f].err = "create") =>
            /\ SessionOfFetch(f) = NoSession
            /\ fetch[f].log = <<"create">>
            /\ fetch[f].jitter = 0
            /\ fetch[f].result = <<>>

\* A fetch has failed at session creation.
C8_Witness ==
    \E f \in Fetches :
        /\ fetch[f].pc = "Failed"
        /\ fetch[f].err = "create"
        /\ SessionOfFetch(f).handle = "none"

\* C9: every step changes what at most one fetch owns (its record, session,
\* drain task and page), and a fetch that returns a result returns the
\* content and screenshot of its own url.
C9_Isolation ==
    /\ [](\A f \in Fetches :
              fetch[f].pc = "Closed" =>
                  fetch[f].result = <<ContentOf(fetch[f].url), StatusOk,
                                      ScreenshotOf(fetch[f].url)>>)
    /\ [][\E f \in Fetches : \A g \in Fetches \ {f} : View(g)' = View(g)]_vars

\* Two fetches of different urls have both returned, each with its own result.
C9_Witness ==
    /\ \A f \in Fetches : fetch[f].pc = "Closed"
    /\ fetch[1].url # fetch[2].url
    /\ fetch[1].result # fetch[2].result

\* C10: no page operation is in flight on a session that has been closed,
\* and a closed session belongs to a fetch that has returned.
C10_NoOpOnClosedSession ==
    \A f \in Fetches :
        /\ fetch[f].pc \in PageOps => SessionOfFetch(f).browser = "alive"
        /\ SessionOfFetch(f).browser = "released" => fetch[f].pc \in Terminal

\* A session that carried out page operations and was then closed.
C10_Witness ==
    \E f \in Fetches :
        /\ SessionOfFetch(f).browser = "released"
        /\ SessionOfFetch(f).pagesOpened = 1
        /\ fetch[f].pc = "Closed"

Count(l, x) == Cardinality({i \in 1..Len(l) : l[i] = x})

\* Page operations in flight on session s.
InFlight(s) ==
    Cardinality({f \in Fetches : SessionOf(f) = s /\ fetch[f].pc \in PageOps})

\* The two delay bounds of C11 and the at-most-once part.
DelayBounds ==
    \A f \in Fetches :
        /\ fetch[f].pc = "warmup" =>
               (fetch[f].jitter >= WarmUpLow /\ fetch[f].jitter < WarmUpHigh)
        /\ fetch[f].pc = "settle" =>
               (fetch[f].jitter >= SettleLow /\ fetch[f].jitter < SettleHigh)
        /\ fetch[f].pc \notin {"warmup", "settle"} => fetch[f].jitter = 0
        /\ Count(fetch[f].log, "warmup") <= 1
        /\ Count(fetch[f].log, "settle") <= 1

\* C11 as stated: every sampled delay lies in its bounds (warm-up in
\* [500,1500), settle in [1000,3000)) and every fetch_page call that has
\* returned applied exactly one delay of each kind.
C11_DelaysExactlyOnce ==
    /\ DelayBounds
    /\ \A f \in Fetches :
           (fetch[f].pc \in Terminal /\ Count(fetch[f].log, "new_page") = 1) =>
               /\ Count(fetch[f].log, "warmup") = 1
               /\ Count(fetch[f].log, "settle") = 1

\* C11 amended: every sampled delay lies in its bounds, no fetch applies a
\* delay of either kind twice, the warm-up is applied exactly once in a fetch
\* whose page was opened and the settle exactly once in a fetch whose
\* wait-for-load completed; a fetch that fails earlier applies none.
C11_DelayBounds ==
    /\ DelayBounds
    /\ \A f \in Fetches :
           /\ Count(fetch[f].log, "warmup") = SessionOfFetch(f).pagesOpened
           /\ Count(fetch[f].log, "settle") =
                  (IF fetch[f].pc = "settle" \/ Count(fetch[f].log, "content") = 1
                       THEN 1 ELSE 0)
           /\ fetch[f].pc = "Closed" =>
                  /\ Count(fetch[f].log, "warmup") = 1
                  /\ Count(fetch[f].log, "settle") = 1

\* A fetch sleeps the largest settle delay after exactly one warm-up.
C11_Witness ==
    \E f \in Fetches :
        /\ fetch[f].pc = "settle"
        /\ fetch[f].jitter = SettleHigh - 1
        /\ Count(fetch[f].log, "warmup") = 1

\* C12: every result of a rendered fetch carries status 200, whatever the
\* url and whatever status the renderer received for it.
C12_StatusAlways200 ==
    \A f \in Fetches :
        /\ fetch[f].status \in {0, StatusOk}
        /\ fetch[f].result # <<>> => fetch[f].result[2] = 200

\* A result with status 200 for a page the renderer received with 404.
C12_Witness ==
    \E f \in Fetches :
        /\ fetch[f].pc = "Closed"
        /\ SessionOfFetch(f).netStatus = 404
        /\ fetch[f].result[2] = 200

Malformed(h) ==
    h.some /\ \E k \in DOMAIN h.map : ~(ValidName(k) /\ ValidValue(h.map[k]))

\* C13: with a malformed header name or value among the arguments no request
\* is sent and the call can only fail; a request is sent only if every
\* supplied header was attached.
C13_MalformedHeaderNoRequest ==
    /\ Malformed(direct.headers) =>
           /\ direct.sent = 0
           /\ direct.pc \in {"idle", "send", "Failed"}
           /\ direct.result = <<>>
    /\ direct.sent > 0 =>
           /\ ~Malformed(direct.headers)
           /\ direct.request_builder.ok
           /\ direct.request_builder.headers = direct.headers.map

\* A call with one good and one malformed header has failed without a request.
C13_Witness ==
    /\ direct.pc = "Failed"
    /\ direct.err = "header"
    /\ direct.sent = 0
    /\ direct.headers.some
    /\ \E k \in DOMAIN direct.headers.map : ValidName(k) /\ ValidValue(direct.headers.map[k])

\* What holds of the status in every state: once the server has answered,
\* its status is taken as a value, and a finished call returns it and the body.
StatusIsValue ==
    /\ direct.pc \in {"text", "Done"} => direct.status = direct.server.status
    /\ direct.pc = "Done" =>
           /\ direct.err = "none"
           /\ direct.result[1] = direct.server.body
           /\ direct.result[2] = direct.server.status
    /\ direct.err # "none" <=> direct.pc = "Failed"

\* C14 as stated: the status the server answers is returned with the body
\* and is no error; an error comes only from a header, transport or body
\* failure.
C14_ErrorsOnlyHeaderTransportBody ==
    /\ StatusIsValue
    /\ direct.pc = "Failed" => direct.err \in {"header", "transport", "body"}

\* C14 amended: the status the server answers is returned with the body and
\* is no error; an error comes only from a failure to build the client, a
\* header, a transport failure or a failure to read the body.
C14_StatusIsValue ==
    /\ StatusIsValue
    /\ direct.pc = "Failed" => direct.err \in {"client", "header", "transport", "body"}

\* The call returned 404 with the body "not found".
C14_Witness ==
    /\ direct.pc = "Done"
    /\ direct.result[1] = "not found"
    /\ direct.result[2] = 404
    /\ direct.err = "none"

\* C15: the returned header mapping has, for every header the server sent,
\* that name with that value.
C15_AllHeadersReturned ==
    direct.pc = "Done" =>
        \A i \in 1..Len(direct.server.headers) :
            /\ direct.server.headers[i][1] \in DOMAIN direct.result[4]
            /\ direct.result[4][direct.server.headers[i][1]] = direct.server.headers[i][2]

\* C16: every extract call returns <<0.99, 0.1, 0.5>>, so the output depends
\* neither on the input nor on earlier calls, and a call leaves the engine's
\* session as it was.
C16_ExtractConstant ==
    /\ [](/\ engine.calls >= 1 => engine.out = <<"0.99", "0.1", "0.5">>
          /\ engine.calls >= 2 => engine.out = engine.prev_out)
    /\ [][engine.calls' # engine.calls =>
              /\ engine.session' = engine.session
              /\ engine.err' = engine.err]_vars

\* Two calls with different inputs gave the same output.
C16_Witness ==
    /\ engine.calls >= 2
    /\ engine.dom_features # engine.prev_features
    /\ Len(engine.dom_features) = MaxFeatures
    /\ engine.out = engine.prev_out

\* C17: a direct fetch sends at most one GET, a rendered fetch creates at
\* most one session, opens at most one page and navigates at most once, and
\* a call that has failed does nothing more.
C17_NoRetry ==
    /\ [](/\ direct.sent <= 1
          /\ \A f \in Fetches :
                 /\ Count(fetch[f].log, "create") <= 1
                 /\ Count(fetch[f].log, "new_page") <= 1
                 /\ Count(fetch[f].log, "goto") <= 1
                 /\ SessionOfFetch(f).created <= 1
                 /\ SessionOfFetch(f).pagesOpened <= 1
                 /\ fetch[f].err # "none" => fetch[f].pc = "Failed")
    /\ [][/\ direct.pc = "Failed" => direct' = direct
          /\ \A f \in Fetches : fetch[f].pc = "Failed" => fetch'[f] = fetch[f]]_vars

\* Both calls have failed after one attempt each.
C17_Witness ==
    /\ direct.pc = "Failed"
    /\ direct.err = "transport"
    /\ direct.sent = 1
    /\ fetch[1].pc = "Failed"
    /\ fetch[1].err = "goto"
    /\ Count(fetch[1].log, "goto") = 1

\* What holds of pages and operations at every moment.
OnePageOneOp ==
    \A f \in Fetches :
        /\ InFlight(SessionOf(f)) <= 1
        /\ SessionOfFetch(f).pagesOpened <= 1
        /\ SessionOfFetch(f).pageOpen => SessionOfFetch(f).pagesOpened = 1

\* C18 as stated: a session has at most one page open and at most one page
\* operation in flight, and over its lifetime opens exactly one page.
C18_ExactlyOnePage ==
    /\ OnePageOneOp
    /\ \A f \in Fetches :
           SessionOfFetch(f).browser = "released" => SessionOfFetch(f).pagesOpened = 1

\* C18 amended: a session has at most one page open and at most one page
\* operation in flight; over its lifetime it is asked for exactly one page and
\* opens exactly one unless that new_page call fails, when it opens none.
C18_AtMostOnePage ==
    /\ OnePageOneOp
    /\ \A f \in Fetches :
           /\ SessionOfFetch(f).created = Count(fetch[f].log, "new_page")
           /\ SessionOfFetch(f).browser = "released" =>
                  SessionOfFetch(f).pagesOpened =
                      (IF fetch[f].err = "new_page" THEN 0 ELSE 1)

\* A session with its one page open and one operation in flight.
C18_Witness ==
    \E f \in Fetches :
        /\ fetch[f].pc = "content"
        /\ SessionOfFetch(f).pageOpen
        /\ SessionOfFetch(f).pagesOpened = 1
        /\ InFlight(SessionOf(f)) = 1

\* C19: a result is returned only when every step and the page close
\* succeeded; when the page close fails the close error is returned and the
\* captured content and screenshot are not.
C19_CloseFailureDiscards ==
    \A f \in Fetches :
        /\ fetch[f].err = "close" =>
               /\ fetch[f].pc = "Failed"
               /\ fetch[f].result = <<>>
        /\ fetch[f].result # <<>> =>
               /\ fetch[f].err = "none"
               /\ fetch[f].log = Order
               /\ ~SessionOfFetch(f).pageOpen

\* The page close failed after content and screenshot had been captured.
C19_Witness ==
    \E f \in Fetches :
        /\ fetch[f].pc = "Failed"
        /\ fetch[f].err = "close"
        /\ fetch[f].content = ContentOf(fetch[f].url)
        /\ fetch[f].screenshot = ScreenshotOf(fetch[f].url)
        /\ fetch[f].result = <<>>
====
